---- MODULE Spec2Model ----
(***************************************************************************)
(* Column classification and chart compatibility of the data dashboard:    *)
(* DataVisualizer._classify_columns / get_compatible_charts /              *)
(* get_chart_suggestions, the is_compatible predicates and create_chart    *)
(* of the three chart kinds, DataVisualizer.create_chart / update_chart,   *)
(* DataExplorer.set_data / get_column_types, and DataManager.load_file /   *)
(* select_file.                                                            *)
(*                                                                         *)
(* A table (pandas DataFrame) is a record                                  *)
(*   [columns : sequence of [name, dtype], rows : sequence of runs]        *)
(* where a run [vals, n] stands for n consecutive equal rows whose cells   *)
(* are vals[1..number of columns] (run-length encoding of the row list).   *)
(* A cell is a record [k, v]: k is the kind of Python object stored and v  *)
(* its payload (the number, or the length of the string).                  *)
(***************************************************************************)
EXTENDS Integers, Sequences, FiniteSets

VARIABLES df, original_df, call, raised, column_types, compatible_charts,
          suggestions, chart_type, chart_params, fig, exception, st_error,
          chart_config, current_chart,
          loaded_data, current_df, current_file, success,
          filtered_df, filters

vars == <<df, original_df, call, raised, column_types, compatible_charts,
          suggestions, chart_type, chart_params, fig, exception, st_error,
          chart_config, current_chart,
          loaded_data, current_df, current_file, success,
          filtered_df, filters>>

\* The arguments and the outcome of the last chart creation.
chart_vars == <<chart_type, chart_params, fig, exception, st_error>>

\* st.session_state of the visualizer.
session_vars == <<chart_config, current_chart>>

\* st.session_state of the data manager, and what its last call returned.
data_vars == <<loaded_data, current_df, current_file, success>>

----------------------------------------------------------------------------
(* Bounds of the explored inputs *)

MaxCols == 3
MaxRuns == 3
MaxRepeat == 11
MaxChartCols == 2
MaxSheets == 2
MaxRows == 2

(* Program constants *)

CardinalityCap == 20
TenthOfRows == 10
MeanLenLimit == 50
ScatterMinNumeric == 2

----------------------------------------------------------------------------
(* Cells *)

Cell(kind, payload) == [k |-> kind, v |-> payload]

NaN == Cell("null", 0)

\* Column labels by position (pandas keeps labels unique when it reads a file).
ColumnNames == <<"c1", "c2", "c3", "c4", "c5", "c6">>

\* The cells a column of each dtype can hold. float64 holds numbers and NaN;
\* bool holds False/True (payload 0/1); object holds str objects (payload =
\* their length), other Python objects (a bool stored next to a missing entry)
\* and None/NaN.
CellsOf(dtype) ==
    CASE dtype = "float64"         -> {Cell("num", 0), Cell("num", 1), Cell("num", 2), NaN}
      [] dtype = "bool"            -> {Cell("bool", 0), Cell("bool", 1)}
      [] dtype = "datetime64[ns]"  -> {Cell("date", 1)}
      [] dtype = "object"          -> {Cell("str", 2), Cell("str", 98), Cell("obj", 1), NaN}
      [] dtype = "category"        -> {Cell("str", 2)}
      [] dtype = "timedelta64[ns]" -> {Cell("td", 1)}

DTypes == {"float64", "bool", "datetime64[ns]", "object", "category", "timedelta64[ns]"}

NoDF == [none |-> TRUE]

\* Every row (tuple of cells) that fits the dtypes dts of the columns.
RECURSIVE RowsOf(_)
RowsOf(dts) ==
    IF dts = <<>> THEN {<<>>}
    ELSE {<<c>> \o r : c \in CellsOf(Head(dts)), r \in RowsOf(Tail(dts))}

\* The table with columns of dtypes dts and the row runs rs.
Table(dts, rs) ==
    [columns |-> [i \in 1..Len(dts) |-> [name |-> ColumnNames[i], dtype |-> dts[i]]],
     rows    |-> rs]

\* t is a table of nc columns whose rows are nr runs with repeat counts in reps.
IsTableOf(t, nc, nr, reps) ==
    \E dts \in [1..nc -> DTypes] :
        \E rs \in [1..nr -> [vals : RowsOf(dts), n : reps]] :
            t = Table(dts, rs)

\* One column (dtype and the cell of its single row) for each outcome of the
\* classification of a column of a one-row table: numeric, boolean, datetime,
\* categorical, text, other, and the column .str refuses.
WideColumns ==
    {[dtype |-> "float64",         cell |-> Cell("num", 2)],
     [dtype |-> "float64",         cell |-> Cell("num", 1)],
     [dtype |-> "datetime64[ns]",  cell |-> Cell("date", 1)],
     [dtype |-> "object",          cell |-> Cell("str", 2)],
     [dtype |-> "object",          cell |-> Cell("str", 98)],
     [dtype |-> "timedelta64[ns]", cell |-> Cell("td", 1)],
     [dtype |-> "object",          cell |-> Cell("obj", 1)]}

\* t is a one-row table of nc columns taken from WideColumns.
IsWideTable(t, nc) ==
    \E cs \in [1..nc -> WideColumns] :
        t = Table([i \in 1..nc |-> cs[i].dtype],
                  <<[vals |-> [i \in 1..nc |-> cs[i].cell], n |-> 1]>>)

----------------------------------------------------------------------------
(* pandas primitives used by the classification *)

\* sum of a sequence of numbers
RECURSIVE Sum(_)
Sum(ns) == IF ns = <<>> THEN 0 ELSE Head(ns) + Sum(Tail(ns))

Min(a, b) == IF a < b THEN a ELSE b

\* len(df)
NumRows(t) == Sum([r \in 1..Len(t.rows) |-> t.rows[r].n])

\* df.empty: some axis has length 0
IsEmpty(t) == Len(t.columns) = 0 \/ NumRows(t) = 0

\* set(df[column].dropna().unique())
UniqueNonMissing(t, i) ==
    {t.rows[r].vals[i] : r \in 1..Len(t.rows)} \ {NaN}

\* df[column].nunique()
nunique(t, i) == Cardinality(UniqueNonMissing(t, i))

is_numeric_dtype(dtype) == dtype \in {"int64", "float64", "bool"}

is_datetime64_any_dtype(dtype) == dtype = "datetime64[ns]"

is_categorical_dtype(dtype) == dtype = "category"

\* is_string_dtype of a dtype object: true of object (and string) dtypes
is_string_dtype(dtype) == dtype \in {"object", "string"}

\* {0, 1, True, False}: Python equates 0 = 0.0 = False and 1 = 1.0 = True
ZeroOne == {Cell("num", 0), Cell("num", 1), Cell("bool", 0), Cell("bool", 1)}

\* Series.str: the accessor is built only when the inferred type of the
\* non-missing values is string, empty or mixed; otherwise AttributeError.
StrAccessorOk(t, i) ==
    LET u == UniqueNonMissing(t, i)
    IN  u = {} \/ (\E c \in u : c.k = "str")

\* df[column].str.len(): the sum of the lengths and the number of lengths.
\* len of a non-str cell is NaN, which the mean skips.
StrLenSum(t, i) ==
    Sum([r \in 1..Len(t.rows) |->
            IF t.rows[r].vals[i].k = "str"
            THEN t.rows[r].vals[i].v * t.rows[r].n ELSE 0])

StrLenCount(t, i) ==
    Sum([r \in 1..Len(t.rows) |->
            IF t.rows[r].vals[i].k = "str" THEN t.rows[r].n ELSE 0])

\* Variant: the boundary mean == 50 counts as long.
MeanLenExceeds_AtLeast(t, i) ==
    StrLenCount(t, i) > 0 /\ StrLenSum(t, i) >= MeanLenLimit * StrLenCount(t, i)

\* Variant: the mean is taken over all rows, missing entries included.
MeanLenExceeds_OverAllRows(t, i) ==
    NumRows(t) > 0 /\ StrLenSum(t, i) > MeanLenLimit * NumRows(t)

\* df[column].str.len().mean() > 50. The mean skips NaN, the mean of nothing
\* is NaN and NaN > 50 is False.
MeanLenExceeds(t, i) ==
    StrLenCount(t, i) > 0 /\ StrLenSum(t, i) > MeanLenLimit * StrLenCount(t, i)

\* Variant: the comparison with the threshold is not strict.
LowCardinality_AtMost(t, i) ==
    nunique(t, i) * TenthOfRows <= Min(CardinalityCap * TenthOfRows, NumRows(t))

\* df[column].nunique() < min(20, len(df) * 0.1), both sides times ten
LowCardinality(t, i) ==
    nunique(t, i) * TenthOfRows < Min(CardinalityCap * TenthOfRows, NumRows(t))

----------------------------------------------------------------------------
(* DataVisualizer._classify_columns / DataExplorer.get_column_types *)

Categories == {"numeric", "categorical", "datetime", "text", "boolean", "other"}

\* column_types = {'numeric': [], 'categorical': [], ...}
EmptyColumnTypes == [c \in Categories |-> <<>>]

\* Variant: issuperset instead of issubset.
IsBooleanCoded_Superset(t, i) == ZeroOne \subseteq UniqueNonMissing(t, i)

\* Variant: one value among {0, 1} is enough.
IsBooleanCoded_Any(t, i) ==
    UniqueNonMissing(t, i) = {} \/ UniqueNonMissing(t, i) \cap ZeroOne # {}

\* Variant: a column without any value is not a boolean column.
IsBooleanCoded_NonEmpty(t, i) ==
    UniqueNonMissing(t, i) # {} /\ UniqueNonMissing(t, i) \subseteq ZeroOne

\* The numeric branch: booleans coded as numbers
IsBooleanCoded(t, i) == UniqueNonMissing(t, i) \subseteq ZeroOne

\* The branch the if/elif chain takes for column i: the category whose list the
\* column is appended to, or "raise" when the .str accessor raises.
ClassifyColumn(t, i) ==
    LET dtype == t.columns[i].dtype
    IN  IF is_numeric_dtype(dtype)
        THEN IF IsBooleanCoded(t, i) THEN "boolean" ELSE "numeric"
        ELSE IF is_datetime64_any_dtype(dtype) THEN "datetime"
        ELSE IF is_categorical_dtype(dtype) \/ LowCardinality(t, i) THEN "categorical"
        ELSE IF is_string_dtype(dtype)
        THEN IF ~StrAccessorOk(t, i) THEN "raise"
             ELSE IF MeanLenExceeds(t, i) THEN "text" ELSE "categorical"
        ELSE "other"

\* Variant: the name is put at the head of the category's list.
Append_to_Front(types, cat, name) == [types EXCEPT ![cat] = <<name>> \o @]

\* column_types[category].append(column)
Append_to(types, cat, name) == [types EXCEPT ![cat] = Append(@, name)]

\* The loop over df.columns from column i on, types being the dict built so
\* far. The result is [raised, value]: an exception leaves the loop at once
\* and no dict is returned.
RECURSIVE ClassifyFrom(_, _, _)
ClassifyFrom(t, i, types) ==
    IF i > Len(t.columns) THEN [raised |-> FALSE, value |-> types]
    ELSE LET cat == ClassifyColumn(t, i)
         IN  IF cat = "raise" THEN [raised |-> TRUE, value |-> EmptyColumnTypes]
             ELSE ClassifyFrom(t, i + 1, Append_to(types, cat, t.columns[i].name))

classify_columns(t) == ClassifyFrom(t, 1, EmptyColumnTypes)

----------------------------------------------------------------------------
(* Chart kinds *)

ChartNames == {"bar", "line", "scatter"}

\* Variant: text columns serve as categories too.
BarChart_is_compatible_OrText(types) ==
    LET has_numeric == Len(types["numeric"]) > 0
        has_categories == Len(types["categorical"]) > 0 \/ Len(types["text"]) > 0
    IN  has_numeric /\ has_categories

BarChart_is_compatible(types) ==
    LET has_numeric == Len(types["numeric"]) > 0
        has_categories == Len(types["categorical"]) > 0
    IN  has_numeric /\ has_categories

\* Variant: a usable x axis is enough.
LineChart_is_compatible_AnyX(types) ==
    LET has_numeric == Len(types["numeric"]) > 0
        has_datetime == Len(types["datetime"]) > 0
    IN  has_datetime \/ has_numeric \/ Len(types["categorical"]) > 0

\* Variant: the x axis must be a datetime column.
LineChart_is_compatible_DatetimeX(types) ==
    LET has_numeric == Len(types["numeric"]) > 0
        has_datetime == Len(types["datetime"]) > 0
    IN  has_numeric /\ has_datetime

LineChart_is_compatible(types) ==
    LET has_numeric == Len(types["numeric"]) > 0
        has_datetime == Len(types["datetime"]) > 0
        has_valid_x == has_datetime \/ has_numeric \/ Len(types["categorical"]) > 0
    IN  has_numeric /\ has_valid_x

\* Variant: strictly more than two numeric columns.
ScatterChart_is_compatible_Strict(types) ==
    LET numeric_cols == Len(types["numeric"])
    IN  numeric_cols > ScatterMinNumeric

ScatterChart_is_compatible(types) ==
    LET numeric_cols == Len(types["numeric"])
    IN  numeric_cols >= ScatterMinNumeric

is_compatible(chart_name, types) ==
    CASE chart_name = "bar"     -> BarChart_is_compatible(types)
      [] chart_name = "line"    -> LineChart_is_compatible(types)
      [] chart_name = "scatter" -> ScatterChart_is_compatible(types)

\* DataVisualizer.get_compatible_charts: the names of the returned dict
\* (value), with the local column_types it was computed from (types).
get_compatible_charts(t) ==
    IF t = NoDF \/ IsEmpty(t)
    THEN [raised |-> FALSE, types |-> EmptyColumnTypes, value |-> {}]
    ELSE LET r == classify_columns(t)
         IN  IF r.raised THEN [raised |-> TRUE, types |-> r.value, value |-> {}]
             ELSE [raised |-> FALSE, types |-> r.value,
                   value  |-> {name \in ChartNames : is_compatible(name, r.value)}]

----------------------------------------------------------------------------
(* DataVisualizer.get_chart_suggestions *)

\* One suggestion dict. The title is kept as the tuple of the pieces the
\* f-string joins; params is the dict of chart parameters.
Suggestion(type, title, params) == [type |-> type, title |-> title, params |-> params]

\* Variant: x and y exchanged in the plain bar suggestion.
BarSuggestions_SwapXY(types) ==
    IF Len(types["numeric"]) > 0 /\ Len(types["categorical"]) > 0
    THEN LET num_col == types["numeric"][1]
             cat_col == types["categorical"][1]
         IN  <<Suggestion("bar", <<"Distribucion de", num_col, "por", cat_col>>,
                          [x |-> num_col, y |-> cat_col])>>
             \o (IF Len(types["categorical"]) > 1
                 THEN LET color_col == types["categorical"][2]
                      IN  <<Suggestion("bar",
                              <<"Distribucion de", num_col, "por", cat_col,
                                "agrupado por", color_col>>,
                              [x |-> cat_col, y |-> num_col, color |-> color_col,
                               aggregation |-> "sum"])>>
                 ELSE <<>>)
    ELSE <<>>

\* Variant: the coloured bar is suggested with a single categorical column,
\* which then serves as x and as color.
BarSuggestions_ColorWithOne(types) ==
    IF Len(types["numeric"]) > 0 /\ Len(types["categorical"]) > 0
    THEN LET num_col == types["numeric"][1]
             cat_col == types["categorical"][1]
             color_col == types["categorical"][Len(types["categorical"])]
         IN  <<Suggestion("bar", <<"Distribucion de", num_col, "por", cat_col>>,
                          [x |-> cat_col, y |-> num_col]),
               Suggestion("bar",
                          <<"Distribucion de", num_col, "por", cat_col,
                            "agrupado por", color_col>>,
                          [x |-> cat_col, y |-> num_col, color |-> color_col,
                           aggregation |-> "sum"])>>
    ELSE <<>>

\* Lines 244-269: the bar suggestion and, inside the same if, the bar
\* coloured by the second categorical column.
BarSuggestions(types) ==
    IF Len(types["numeric"]) > 0 /\ Len(types["categorical"]) > 0
    THEN LET num_col == types["numeric"][1]
             cat_col == types["categorical"][1]
         IN  <<Suggestion("bar", <<"Distribucion de", num_col, "por", cat_col>>,
                          [x |-> cat_col, y |-> num_col])>>
             \o (IF Len(types["categorical"]) > 1
                 THEN LET color_col == types["categorical"][2]
                      IN  <<Suggestion("bar",
                              <<"Distribucion de", num_col, "por", cat_col,
                                "agrupado por", color_col>>,
                              [x |-> cat_col, y |-> num_col, color |-> color_col,
                               aggregation |-> "sum"])>>
                 ELSE <<>>)
    ELSE <<>>

\* Variant: the line is suggested for any datetime column, numeric or not.
LineSuggestions_NoNumericTest(types) ==
    IF Len(types["datetime"]) > 0
    THEN LET date_col == types["datetime"][1]
             num_col == IF Len(types["numeric"]) > 0
                        THEN types["numeric"][1] ELSE date_col
         IN  <<Suggestion("line", <<"Tendencia de", num_col, "en el tiempo">>,
                          [x |-> date_col, y |-> num_col])>>
    ELSE <<>>

\* Lines 271-283
LineSuggestions(types) ==
    IF Len(types["datetime"]) > 0 /\ Len(types["numeric"]) > 0
    THEN LET date_col == types["datetime"][1]
             num_col == types["numeric"][1]
         IN  <<Suggestion("line", <<"Tendencia de", num_col, "en el tiempo">>,
                          [x |-> date_col, y |-> num_col])>>
    ELSE <<>>

\* Variant: one numeric column is enough and serves as x and as y.
ScatterSuggestions_OneNumeric(types) ==
    IF Len(types["numeric"]) >= 1
    THEN LET x_col == types["numeric"][1]
             y_col == types["numeric"][Len(types["numeric"])]
         IN  <<Suggestion("scatter", <<"Relacion entre", x_col, "y", y_col>>,
                          [x |-> x_col, y |-> y_col])>>
             \o (IF Len(types["categorical"]) > 0
                 THEN LET color_col == types["categorical"][1]
                      IN  <<Suggestion("scatter",
                              <<"Relacion entre", x_col, "y", y_col,
                                "agrupado por", color_col>>,
                              [x |-> x_col, y |-> y_col, color |-> color_col])>>
                 ELSE <<>>)
    ELSE <<>>

\* Variant: the coloured scatter comes before the plain one.
ScatterSuggestions_ColorFirst(types) ==
    IF Len(types["numeric"]) >= 2
    THEN LET x_col == types["numeric"][1]
             y_col == types["numeric"][2]
         IN  (IF Len(types["categorical"]) > 0
              THEN LET color_col == types["categorical"][1]
                   IN  <<Suggestion("scatter",
                           <<"Relacion entre", x_col, "y", y_col,
                             "agrupado por", color_col>>,
                           [x |-> x_col, y |-> y_col, color |-> color_col])>>
              ELSE <<>>)
             \o <<Suggestion("scatter", <<"Relacion entre", x_col, "y", y_col>>,
                             [x |-> x_col, y |-> y_col])>>
    ELSE <<>>

\* Lines 285-310: the scatter suggestion and, inside the same if, the scatter
\* coloured by the first categorical column.
ScatterSuggestions(types) ==
    IF Len(types["numeric"]) >= 2
    THEN LET x_col == types["numeric"][1]
             y_col == types["numeric"][2]
         IN  <<Suggestion("scatter", <<"Relacion entre", x_col, "y", y_col>>,
                          [x |-> x_col, y |-> y_col])>>
             \o (IF Len(types["categorical"]) > 0
                 THEN LET color_col == types["categorical"][1]
                      IN  <<Suggestion("scatter",
                              <<"Relacion entre", x_col, "y", y_col,
                                "agrupado por", color_col>>,
                              [x |-> x_col, y |-> y_col, color |-> color_col])>>
                 ELSE <<>>)
    ELSE <<>>

\* Variant: the line suggestion is appended first.
SuggestionsOf_LineFirst(types) ==
    LineSuggestions(types) \o BarSuggestions(types) \o ScatterSuggestions(types)

\* The suggestions list after the three blocks of appends.
SuggestionsOf(types) ==
    BarSuggestions(types) \o LineSuggestions(types) \o ScatterSuggestions(types)

\* DataVisualizer.get_chart_suggestions: the returned list (value), with the
\* local column_types it was computed from (types).
get_chart_suggestions(t) ==
    IF t = NoDF \/ IsEmpty(t)
    THEN [raised |-> FALSE, types |-> EmptyColumnTypes, value |-> <<>>]
    ELSE LET r == classify_columns(t)
         IN  IF r.raised THEN [raised |-> TRUE, types |-> r.value, value |-> <<>>]
             ELSE [raised |-> FALSE, types |-> r.value, value |-> SuggestionsOf(r.value)]

----------------------------------------------------------------------------
(* BarChart / LineChart / ScatterChart .create_chart                       *)
(*                                                                         *)
(* kwargs is the dict of keyword arguments, a function from the keys given *)
(* to their values (column labels and reduction names, all strings). The   *)
(* outcome is [exception, fig]: the exception that leaves create_chart     *)
(* (its Python type and the call that raised it) and the figure returned.  *)
(* The explored calls pass no other key than x, y, color and aggregation.  *)

\* kwargs.get(key): None when the key is not given
Get(kwargs, key) == IF key \in DOMAIN kwargs THEN kwargs[key] ELSE "None"

\* Python truth of a parameter value: None and '' are false
Truthy(v) == v \notin {"None", ""}

Exception(type, at) == [type |-> type, at |-> at]

NoException == Exception("None", "None")

NoFig == [none |-> TRUE]

Raises(type, at) == [exception |-> Exception(type, at), fig |-> NoFig]

Returns(figure) == [exception |-> NoException, fig |-> figure]

\* df.columns as a set of labels; the dtype of the column of a label
Labels(t) == {t.columns[i].name : i \in 1..Len(t.columns)}

DTypeOf(t, name) ==
    LET i == CHOOSE k \in 1..Len(t.columns) : t.columns[k].name = name
    IN  t.columns[i].dtype

\* Reduction names SeriesGroupBy.agg resolves: a string is looked up as a
\* method of the group-by object, so the names the page offers and the other
\* pandas reductions are accepted alike; any other string is no attribute.
Reductions == {"sum", "mean", "count", "min", "max",
               "median", "first", "last", "size", "nunique"}

\* Reductions pandas refuses for the dtype of the reduced column.
RefusedFor(aggregation, dtype) ==
    \/ aggregation = "sum" /\ dtype \in {"datetime64[ns]", "category"}
    \/ aggregation = "mean" /\ dtype \in {"object", "category"}

\* df.groupby(keys)[y].agg(aggregation).reset_index(): the exception raised,
\* or the aggregated frame, kept as the expression that builds it; its
\* columns are the keys followed by y.
GroupByAgg(t, keys, y, aggregation) ==
    IF \E k \in 1..Len(keys) : keys[k] \notin Labels(t)
    THEN [exception |-> Exception("KeyError", "groupby"), frame |-> NoDF]
    ELSE IF y \notin Labels(t)
    THEN [exception |-> Exception("KeyError", "getitem"), frame |-> NoDF]
    ELSE IF aggregation \notin Reductions
    THEN [exception |-> Exception("AttributeError", "agg"), frame |-> NoDF]
    ELSE IF RefusedFor(aggregation, DTypeOf(t, y))
    THEN [exception |-> Exception("TypeError", "agg"), frame |-> NoDF]
    ELSE IF (\E k \in 1..Len(keys) : keys[k] = y)
            \/ (\E j, k \in 1..Len(keys) : j < k /\ keys[j] = keys[k])
    THEN [exception |-> Exception("ValueError", "reset_index"), frame |-> NoDF]
    ELSE [exception |-> NoException,
          frame |-> [groupby |-> keys, y |-> y, agg |-> aggregation, of |-> t]]

\* The column labels of the frame handed to plotly.
FrameLabels(frame) ==
    IF "groupby" \in DOMAIN frame
    THEN {frame.groupby[k] : k \in 1..Len(frame.groupby)} \cup {frame.y}
    ELSE Labels(frame)

\* px.bar / px.line / px.scatter (plot_df, x=, y=, color=): every argument
\* that is not None has to name a column of plot_df.
PlotlyExpress(kind, plot_df, x, y, color) ==
    IF \E v \in {x, y, color} : v # "None" /\ v \notin FrameLabels(plot_df)
    THEN Raises("ValueError", "plotly")
    ELSE Returns([type |-> kind, data_frame |-> plot_df,
                  x |-> x, y |-> y, color |-> color])

\* Variant: one of the two parameters is enough.
RequiredGiven_Either(kwargs) == "x" \in DOMAIN kwargs \/ "y" \in DOMAIN kwargs

\* not ('x' not in kwargs or 'y' not in kwargs)
RequiredGiven(kwargs) == "x" \in DOMAIN kwargs /\ "y" \in DOMAIN kwargs

\* BarChart.create_chart and LineChart.create_chart after the check of the
\* required parameters: the optional aggregation, then the plotly call.
AggregateAndPlot(kind, t, kwargs) ==
    LET x == Get(kwargs, "x")
        y == Get(kwargs, "y")
        color == Get(kwargs, "color")
        aggregation == Get(kwargs, "aggregation")
    IN  IF Truthy(aggregation)
        THEN LET a == GroupByAgg(t, IF Truthy(color) THEN <<x, color>> ELSE <<x>>,
                                 y, aggregation)
             IN  IF a.exception # NoException
                 THEN [exception |-> a.exception, fig |-> NoFig]
                 ELSE PlotlyExpress(kind, a.frame, x, y, color)
        ELSE PlotlyExpress(kind, t, x, y, color)

BarChart_create_chart(t, kwargs) ==
    IF ~RequiredGiven(kwargs) THEN Raises("ValueError", "create_chart")
    ELSE AggregateAndPlot("bar", t, kwargs)

LineChart_create_chart(t, kwargs) ==
    IF ~RequiredGiven(kwargs) THEN Raises("ValueError", "create_chart")
    ELSE AggregateAndPlot("line", t, kwargs)

\* ScatterChart.create_chart reads no aggregation.
ScatterChart_create_chart(t, kwargs) ==
    IF ~RequiredGiven(kwargs) THEN Raises("ValueError", "create_chart")
    ELSE PlotlyExpress("scatter", t, Get(kwargs, "x"), Get(kwargs, "y"),
                       Get(kwargs, "color"))

\* self.chart_types[chart_type].create_chart(df, **chart_params)
chart_create_chart(kind, t, kwargs) ==
    CASE kind = "bar"     -> BarChart_create_chart(t, kwargs)
      [] kind = "line"    -> LineChart_create_chart(t, kwargs)
      [] kind = "scatter" -> ScatterChart_create_chart(t, kwargs)

----------------------------------------------------------------------------
(* DataVisualizer.create_chart / update_chart                              *)
(*                                                                         *)
(* config and chart are st.session_state.chart_config and current_chart.   *)
(* The outcome is the exception that leaves the method, the value it       *)
(* returns, whether st.error was called, the session state it leaves, and  *)
(* the arguments create_chart was entered with.                            *)

ChartOutcome(exc, value, reported, config, chart, kind, params) ==
    [exception |-> exc, value |-> value, st_error |-> reported,
     chart_config |-> config, current_chart |-> chart,
     type |-> kind, params |-> params]

\* DataVisualizer.create_chart: None for no table or an empty one; ValueError
\* for an unknown chart type, raised before the try; inside the try the
\* configuration is stored first, then the chart is built and stored; any
\* exception of the chart is reported with st.error and None returned.
create_chart(t, kind, params, config, chart) ==
    IF t = NoDF \/ IsEmpty(t)
    THEN ChartOutcome(NoException, NoFig, FALSE, config, chart, kind, params)
    ELSE IF kind \notin ChartNames
    THEN ChartOutcome(Exception("ValueError", "DataVisualizer.create_chart"),
                      NoFig, FALSE, config, chart, kind, params)
    ELSE LET stored == [type |-> kind, params |-> params]
             r == chart_create_chart(kind, t, params)
         IN  IF r.exception # NoException
             THEN ChartOutcome(NoException, NoFig, TRUE, stored, chart, kind, params)
             ELSE ChartOutcome(NoException, r.fig, FALSE, stored, r.fig, kind, params)

\* chart_params.update(update_params)
Updated(params, update_params) ==
    [k \in DOMAIN params \cup DOMAIN update_params |->
        IF k \in DOMAIN update_params THEN update_params[k] ELSE params[k]]

\* DataVisualizer.update_chart: None when no configuration is stored, else
\* create_chart with the stored type and the updated copy of the stored
\* parameters.
update_chart(t, update_params, config, chart) ==
    IF DOMAIN config = {}
    THEN ChartOutcome(NoException, NoFig, FALSE, config, chart, "None", <<>>)
    ELSE create_chart(t, config.type, Updated(config.params, update_params),
                      config, chart)

----------------------------------------------------------------------------
(* DataExplorer *)

\* Variant: the explorer has no rule for columns of few distinct values.
DataExplorer_ClassifyColumn_NoCardinality(t, i) ==
    LET dtype == t.columns[i].dtype
    IN  IF is_numeric_dtype(dtype)
        THEN IF IsBooleanCoded(t, i) THEN "boolean" ELSE "numeric"
        ELSE IF is_datetime64_any_dtype(dtype) THEN "datetime"
        ELSE IF is_categorical_dtype(dtype) THEN "categorical"
        ELSE IF is_string_dtype(dtype)
        THEN IF ~StrAccessorOk(t, i) THEN "raise"
             ELSE IF MeanLenExceeds(t, i) THEN "text" ELSE "categorical"
        ELSE "other"

\* The if/elif chain of DataExplorer.get_column_types for column i of
\* self.original_df (lines 60-78).
DataExplorer_ClassifyColumn(t, i) ==
    LET dtype == t.columns[i].dtype
    IN  IF is_numeric_dtype(dtype)
        THEN IF IsBooleanCoded(t, i) THEN "boolean" ELSE "numeric"
        ELSE IF is_datetime64_any_dtype(dtype) THEN "datetime"
        ELSE IF is_categorical_dtype(dtype) \/ LowCardinality(t, i) THEN "categorical"
        ELSE IF is_string_dtype(dtype)
        THEN IF ~StrAccessorOk(t, i) THEN "raise"
             ELSE IF MeanLenExceeds(t, i) THEN "text" ELSE "categorical"
        ELSE "other"

\* The explorer's loop over self.original_df.columns from column i on.
RECURSIVE DataExplorer_ClassifyFrom(_, _, _)
DataExplorer_ClassifyFrom(t, i, types) ==
    IF i > Len(t.columns) THEN [raised |-> FALSE, value |-> types]
    ELSE LET cat == DataExplorer_ClassifyColumn(t, i)
         IN  IF cat = "raise" THEN [raised |-> TRUE, value |-> EmptyColumnTypes]
             ELSE DataExplorer_ClassifyFrom(t, i + 1,
                                            Append_to(types, cat, t.columns[i].name))

\* DataExplorer.get_column_types: {} when no data was set
get_column_types(odf) ==
    IF odf = NoDF THEN [raised |-> FALSE, value |-> EmptyColumnTypes, none |-> TRUE]
    ELSE LET r == DataExplorer_ClassifyFrom(odf, 1, EmptyColumnTypes)
         IN  [raised |-> r.raised, value |-> r.value, none |-> FALSE]

----------------------------------------------------------------------------
(* The session: the table df, the explorer's original_df, the last call    *)
(* made, whether it raised, and the category map, chart names and          *)
(* suggestions it computed.                                                *)

\* st.session_state.chart_config = {}
NoConfig == [k \in {} |-> "None"]

\* st.session_state.loaded_data = {}
NoData == [k \in {} |-> NoDF]

\* st.session_state.current_file = None
NoFile == <<>>

\* The session state and the explorer as their constructors leave them
\* (DataVisualizer.__init__, DataManager.__init__, DataExplorer.__init__).
Constructed ==
    /\ st_error = FALSE
    /\ chart_config = NoConfig
    /\ current_chart = NoFig
    /\ loaded_data = NoData
    /\ current_df = NoDF
    /\ current_file = NoFile
    /\ success = FALSE
    /\ filtered_df = NoDF
    /\ filters = <<>>

\* The explored tables: tables of up to MaxCols columns with no row or with
\* one row (one column of each kind of WideColumns), and one-column tables of
\* up to MaxRuns runs of 1 or MaxRepeat equal rows of any cell of the dtype.
Init ==
    /\ \/ df = NoDF
       \/ \E nc \in 0..MaxCols : IsTableOf(df, nc, 0, {1})
       \/ \E nc \in 0..MaxCols : IsWideTable(df, nc)
       \/ \E nr \in 0..MaxRuns : IsTableOf(df, 1, nr, {1, MaxRepeat})
    /\ original_df = NoDF
    /\ call = "init"
    /\ raised = FALSE
    /\ column_types = EmptyColumnTypes
    /\ compatible_charts = {}
    /\ suggestions = <<>>
    /\ chart_type = "None"
    /\ chart_params = <<>>
    /\ fig = NoFig
    /\ exception = NoException
    /\ Constructed

\* column_types = self._classify_columns(df); the callers of this private
\* method have returned before it when df is None.
ClassifyColumns ==
    /\ df # NoDF
    /\ LET r == classify_columns(df)
       IN  /\ raised' = r.raised
           /\ column_types' = r.value
    /\ call' = "_classify_columns"
    /\ compatible_charts' = {}
    /\ suggestions' = <<>>
    /\ UNCHANGED <<df, original_df, filtered_df, filters>>
    /\ UNCHANGED <<chart_vars, session_vars, data_vars>>

\* compatible = data_visualizer.get_compatible_charts(df)
GetCompatibleCharts ==
    /\ LET r == get_compatible_charts(df)
       IN  /\ raised' = r.raised
           /\ compatible_charts' = r.value
           /\ column_types' = r.types
    /\ call' = "get_compatible_charts"
    /\ suggestions' = <<>>
    /\ UNCHANGED <<df, original_df, filtered_df, filters>>
    /\ UNCHANGED <<chart_vars, session_vars, data_vars>>

\* Variant: the suggestions call drops the current chart of the session.
GetChartSuggestions_ClearsChart ==
    /\ LET r == get_chart_suggestions(df)
       IN  /\ raised' = r.raised
           /\ suggestions' = r.value
           /\ column_types' = r.types
    /\ call' = "get_chart_suggestions"
    /\ compatible_charts' = {}
    /\ current_chart' = NoFig
    /\ UNCHANGED <<df, original_df, filtered_df, filters, chart_config>>
    /\ UNCHANGED <<chart_vars, data_vars>>

\* suggestions = data_visualizer.get_chart_suggestions(df)
GetChartSuggestions ==
    /\ LET r == get_chart_suggestions(df)
       IN  /\ raised' = r.raised
           /\ suggestions' = r.value
           /\ column_types' = r.types
    /\ call' = "get_chart_suggestions"
    /\ compatible_charts' = {}
    /\ UNCHANGED <<df, original_df, filtered_df, filters>>
    /\ UNCHANGED <<chart_vars, session_vars, data_vars>>

\* data_explorer.set_data(df); the page returns before it when df is None.
SetData ==
    /\ df # NoDF
    /\ original_df' = df
    /\ filtered_df' = df
    /\ filters' = <<>>
    /\ call' = "set_data"
    /\ raised' = FALSE
    /\ column_types' = EmptyColumnTypes
    /\ compatible_charts' = {}
    /\ suggestions' = <<>>
    /\ UNCHANGED df
    /\ UNCHANGED <<chart_vars, session_vars, data_vars>>

\* column_types = data_explorer.get_column_types()
GetColumnTypes ==
    /\ LET r == get_column_types(original_df)
       IN  /\ raised' = r.raised
           /\ column_types' = r.value
           /\ call' = IF r.none THEN "get_column_types_none" ELSE "get_column_types"
    /\ compatible_charts' = {}
    /\ suggestions' = <<>>
    /\ UNCHANGED <<df, original_df, filtered_df, filters>>
    /\ UNCHANGED <<chart_vars, session_vars, data_vars>>

Next ==
    \/ ClassifyColumns
    \/ GetCompatibleCharts
    \/ GetChartSuggestions
    \/ SetData
    \/ GetColumnTypes

Spec == Init /\ [][Next]_vars

----------------------------------------------------------------------------
(* Chart creation: the chart objects called on a table with keyword        *)
(* arguments that the caller chose freely.                                 *)

\* The cell a one-row table of the chart calls holds in a column of the dtype.
ChartCell(dtype) ==
    CASE dtype = "float64"        -> Cell("num", 2)
      [] dtype = "datetime64[ns]" -> Cell("date", 1)

\* A dtype every reduction accepts and one that sum refuses.
ChartDTypes == {"float64", "datetime64[ns]"}

\* The one-row table of nc columns of the dtypes dts.
ChartTable(dts) ==
    Table(dts, <<[vals |-> [i \in 1..Len(dts) |-> ChartCell(dts[i])], n |-> 1]>>)

\* A parameter that is not passed.
Absent == "<absent>"

\* The kwargs dict of the parameters that are passed.
MakeParams(x, y, color, aggregation) ==
    LET all == [x |-> x, y |-> y, color |-> color, aggregation |-> aggregation]
    IN  [k \in {key \in DOMAIN all : all[key] # Absent} |-> all[k]]

\* The labels and reduction names the explored calls pass: columns that can
\* be in the table and one that never is; a reduction of the page's list, a
\* pandas reduction that is not on it, and a name that is no reduction.
ParamLabels == {"c1", "c2", "zz"}

ParamColors == {"c1"}

ParamAggregations == {"sum", "first", "median_unsupported"}

\* The tables DataVisualizer.create_chart passes on: not None, not empty.
InitCharts ==
    /\ \E nc \in 1..MaxChartCols : \E dts \in [1..nc -> ChartDTypes] :
           df = ChartTable(dts)
    /\ original_df = NoDF
    /\ call = "init"
    /\ raised = FALSE
    /\ column_types = EmptyColumnTypes
    /\ compatible_charts = {}
    /\ suggestions = <<>>
    /\ chart_type = "None"
    /\ chart_params = <<>>
    /\ fig = NoFig
    /\ exception = NoException
    /\ Constructed

\* fig = chart.create_chart(df, **chart_params)
ChartCreateChart ==
    \E kind \in ChartNames :
    \E x \in ParamLabels \cup {Absent}, y \in ParamLabels \cup {Absent},
       color \in ParamColors \cup {Absent},
       aggregation \in ParamAggregations \cup {Absent} :
        LET kwargs == MakeParams(x, y, color, aggregation)
            r == chart_create_chart(kind, df, kwargs)
        IN  /\ chart_type' = kind
            /\ chart_params' = kwargs
            /\ exception' = r.exception
            /\ fig' = r.fig
            /\ raised' = (r.exception # NoException)
            /\ call' = "chart.create_chart"
            /\ st_error' = FALSE
            /\ UNCHANGED <<df, original_df, filtered_df, filters, column_types,
                           compatible_charts, suggestions>>
            /\ UNCHANGED <<session_vars, data_vars>>

NextCharts == ChartCreateChart

SpecCharts == InitCharts /\ [][NextCharts]_vars

----------------------------------------------------------------------------
(* The visualization page: charts created and updated through the          *)
(* DataVisualizer, between classifications of the same table.              *)

\* The chart types asked for: two that exist and one that does not.
SessionKinds == {"bar", "scatter", "pie"}

\* The table of the page: none, one without rows, or a one-row table.
InitSession ==
    /\ \/ df = NoDF
       \/ df = Table(<<"float64">>, <<>>)
       \/ \E nc \in 1..MaxChartCols : \E dts \in [1..nc -> ChartDTypes] :
              df = ChartTable(dts)
    /\ original_df = NoDF
    /\ call = "init"
    /\ raised = FALSE
    /\ column_types = EmptyColumnTypes
    /\ compatible_charts = {}
    /\ suggestions = <<>>
    /\ chart_type = "None"
    /\ chart_params = <<>>
    /\ fig = NoFig
    /\ exception = NoException
    /\ Constructed

\* fig = data_visualizer.create_chart(df, selected_chart, chart_params)
CreateChart ==
    \E kind \in SessionKinds :
    \E x \in {"c1", "zz"}, y \in {"c1", Absent}, aggregation \in {"sum", Absent} :
        LET r == create_chart(df, kind, MakeParams(x, y, Absent, aggregation),
                              chart_config, current_chart)
        IN  /\ chart_type' = r.type
            /\ chart_params' = r.params
            /\ fig' = r.value
            /\ exception' = r.exception
            /\ st_error' = r.st_error
            /\ chart_config' = r.chart_config
            /\ current_chart' = r.current_chart
            /\ raised' = (r.exception # NoException)
            /\ call' = "create_chart"
            /\ column_types' = EmptyColumnTypes
            /\ compatible_charts' = {}
            /\ suggestions' = <<>>
            /\ UNCHANGED <<df, original_df, filtered_df, filters>>
            /\ UNCHANGED data_vars

\* fig = data_visualizer.update_chart(df, update_params)
UpdateChart ==
    \E x \in {"c1", "zz", Absent}, y \in {"c1", Absent},
       aggregation \in {"sum", Absent} :
        LET r == update_chart(df, MakeParams(x, y, Absent, aggregation),
                              chart_config, current_chart)
        IN  /\ chart_type' = r.type
            /\ chart_params' = r.params
            /\ fig' = r.value
            /\ exception' = r.exception
            /\ st_error' = r.st_error
            /\ chart_config' = r.chart_config
            /\ current_chart' = r.current_chart
            /\ raised' = (r.exception # NoException)
            /\ call' = "update_chart"
            /\ column_types' = EmptyColumnTypes
            /\ compatible_charts' = {}
            /\ suggestions' = <<>>
            /\ UNCHANGED <<df, original_df, filtered_df, filters>>
            /\ UNCHANGED data_vars

NextSession ==
    \/ CreateChart
    \/ UpdateChart
    \/ ClassifyColumns
    \/ GetCompatibleCharts
    \/ GetChartSuggestions

SpecSession == InitSession /\ [][NextSession]_vars

----------------------------------------------------------------------------
(* DataManager: files loaded into the session and the current selection.   *)
(*                                                                         *)
(* An uploaded file is [name, valid, read]: valid is what the loader's     *)
(* validate_file answers, read is what its load_data does: it raises, it   *)
(* returns one table (frame), or it returns a dict of sheets (an Excel     *)
(* file read with multi_sheet or with several sheet names). A key of       *)
(* loaded_data is the tuple of the pieces of the string.                   *)

FileNames == {"a.csv", "b.xlsx", "c.txt"}

\* The extension file_name.lower().endswith tests.
Extension(name) ==
    CASE name = "a.csv"  -> ".csv"
      [] name = "b.xlsx" -> ".xlsx"
      [] name = "c.txt"  -> ".txt"

\* The file_uploader gave no file.
NoUpload == [none |-> TRUE]

SheetNames == <<"S1", "S2", "S3", "S4">>

\* The tables the files hold.
DataTables == {ChartTable(<<"float64">>), ChartTable(<<"datetime64[ns]">>)}

\* file.name and f"{file.name} - {sheet_name}"
FileKey(name) == <<name>>

SheetKey(name, sheet_name) == <<name, " - ", sheet_name>>

\* st.session_state.loaded_data[key] = table
Store(data, key, table) ==
    [k \in DOMAIN data \cup {key} |-> IF k = key THEN table ELSE data[k]]

\* for sheet_name, sheet_df in df.items(): loaded_data[file_key] = sheet_df
RECURSIVE StoreSheets(_, _, _)
StoreSheets(data, name, sheets) ==
    IF sheets = <<>> THEN data
    ELSE StoreSheets(Store(data, SheetKey(name, Head(sheets).name), Head(sheets).df),
                     name, Tail(sheets))

ManagerState(data, cdf, cfile, ok) ==
    [loaded_data |-> data, current_df |-> cdf, current_file |-> cfile, success |-> ok]

\* DataLoaderFactory.get_loader raises ValueError for any other extension.
HasLoader(name) == Extension(name) \in {".csv", ".xlsx", ".xls"}

\* Variant: a single table is stored but the selection stays where it was.
load_file_KeepsSelection(data, cdf, cfile, file) ==
    IF file = NoUpload THEN ManagerState(data, cdf, cfile, FALSE)
    ELSE IF ~HasLoader(file.name) THEN ManagerState(data, cdf, cfile, FALSE)
    ELSE IF ~file.valid THEN ManagerState(data, cdf, cfile, FALSE)
    ELSE IF file.read.kind = "raise" THEN ManagerState(data, cdf, cfile, FALSE)
    ELSE IF file.read.kind = "dict"
    THEN IF file.read.sheets = <<>>
         THEN ManagerState(data, cdf, cfile, FALSE)
         ELSE ManagerState(StoreSheets(data, file.name, file.read.sheets),
                           file.read.sheets[1].df,
                           SheetKey(file.name, file.read.sheets[1].name), TRUE)
    ELSE ManagerState(Store(data, FileKey(file.name), file.read.df),
                      cdf, cfile, TRUE)

\* DataManager.load_file, the whole body being inside try/except Exception:
\* no file, no loader for the extension, a file the loader does not validate
\* and a load_data that raises all return (False, message); a dict of sheets
\* is stored sheet by sheet and its first sheet selected (list(...)[0] of an
\* empty dict raises IndexError after nothing was stored); a single table is
\* stored under the file name and selected.
load_file(data, cdf, cfile, file) ==
    IF file = NoUpload THEN ManagerState(data, cdf, cfile, FALSE)
    ELSE IF ~HasLoader(file.name) THEN ManagerState(data, cdf, cfile, FALSE)
    ELSE IF ~file.valid THEN ManagerState(data, cdf, cfile, FALSE)
    ELSE IF file.read.kind = "raise" THEN ManagerState(data, cdf, cfile, FALSE)
    ELSE IF file.read.kind = "dict"
    THEN IF file.read.sheets = <<>>
         THEN ManagerState(data, cdf, cfile, FALSE)
         ELSE ManagerState(StoreSheets(data, file.name, file.read.sheets),
                           file.read.sheets[1].df,
                           SheetKey(file.name, file.read.sheets[1].name), TRUE)
    ELSE ManagerState(Store(data, FileKey(file.name), file.read.df),
                      file.read.df, FileKey(file.name), TRUE)

\* DataManager.select_file
select_file(data, cdf, cfile, file_name) ==
    IF file_name \in DOMAIN data
    THEN ManagerState(data, data[file_name], file_name, TRUE)
    ELSE ManagerState(data, cdf, cfile, FALSE)

\* What load_data of the loader of the file can do: CSVLoader raises or
\* returns one table, ExcelLoader can also return a dict of up to MaxSheets
\* sheets.
ReadsOf(name) ==
    {[kind |-> "raise"]}
    \cup {[kind |-> "frame", df |-> t] : t \in DataTables}
    \cup (IF Extension(name) = ".csv" THEN {}
          ELSE UNION {{[kind |-> "dict",
                        sheets |-> [i \in 1..n |-> [name |-> SheetNames[i], df |-> ts[i]]]]
                       : ts \in [1..n -> DataTables]} : n \in 0..MaxSheets})

\* The names select_file is asked for: every key a load can store, and one
\* that is never stored.
SelectableKeys ==
    {FileKey(name) : name \in FileNames}
    \cup {SheetKey("b.xlsx", SheetNames[i]) : i \in 1..MaxSheets}

InitData ==
    /\ df = NoDF
    /\ original_df = NoDF
    /\ call = "init"
    /\ raised = FALSE
    /\ column_types = EmptyColumnTypes
    /\ compatible_charts = {}
    /\ suggestions = <<>>
    /\ chart_type = "None"
    /\ chart_params = <<>>
    /\ fig = NoFig
    /\ exception = NoException
    /\ Constructed

\* success, message = data_manager.load_file(uploaded_file, **load_options)
LoadFile ==
    \E file \in {NoUpload}
                \cup UNION {[name : {name}, valid : BOOLEAN, read : ReadsOf(name)]
                            : name \in FileNames} :
        LET r == load_file(loaded_data, current_df, current_file, file)
        IN  /\ loaded_data' = r.loaded_data
            /\ current_df' = r.current_df
            /\ current_file' = r.current_file
            /\ success' = r.success
            /\ call' = "load_file"
            /\ UNCHANGED <<df, original_df, filtered_df, filters, raised, column_types,
                           compatible_charts, suggestions>>
            /\ UNCHANGED <<chart_vars, session_vars>>

\* success, message = data_manager.select_file(selected_file)
SelectFile ==
    \E file_name \in SelectableKeys :
        LET r == select_file(loaded_data, current_df, current_file, file_name)
        IN  /\ loaded_data' = r.loaded_data
            /\ current_df' = r.current_df
            /\ current_file' = r.current_file
            /\ success' = r.success
            /\ call' = "select_file"
            /\ UNCHANGED <<df, original_df, filtered_df, filters, raised, column_types,
                           compatible_charts, suggestions>>
            /\ UNCHANGED <<chart_vars, session_vars>>

NextData ==
    \/ LoadFile
    \/ SelectFile

SpecData == InitData /\ [][NextData]_vars

----------------------------------------------------------------------------
(* DataExplorer: filtering, sorting and selecting the columns of the       *)
(* filtered table.                                                         *)
(*                                                                         *)
(* A str cell of payload n stands for the text of n letters "x"; a search  *)
(* text is [kind |-> "str", valid, len]: len letters "x", or a text that   *)
(* is no valid regular expression. A range is a 2-tuple of bounds, a list  *)
(* a set of cells. filters is the sequence of the items of the dict of the *)
(* filter call just made, and empty after any other call.                  *)

Range(lo, hi) == [kind |-> "tuple", lo |-> lo, hi |-> hi]

ValueList(cells) == [kind |-> "list", vals |-> cells]

SearchText(valid, len) == [kind |-> "str", valid |-> valid, len |-> len]

Item(column, value) == [column |-> column, value |-> value]

\* df.columns.get_loc(column)
get_loc(t, column) == CHOOSE i \in 1..Len(t.columns) : t.columns[i].name = column

\* df[mask]: the rows of t whose mask entry is true, in their order.
RECURSIVE Masked(_, _, _)
Masked(rows, mask, r) ==
    IF r > Len(rows) THEN <<>>
    ELSE (IF mask[r] THEN <<rows[r]>> ELSE <<>>) \o Masked(rows, mask, r + 1)

BooleanIndex(t, mask) == [columns |-> t.columns, rows |-> Masked(t.rows, mask, 1)]

\* (df[column] >= lo) & (df[column] <= hi): a comparison with NaN/NaT is False
Between(cell, lo, hi) == cell # NaN /\ lo <= cell.v /\ cell.v <= hi

\* Series.str.contains(text, case=False, na=False) of one cell: an entry
\* that is no str gives NaN, which na=False turns into False.
Contains(cell, text) == cell.k = "str" /\ text.len <= cell.v

Filtered(t) == [raised |-> FALSE, df |-> t]

FilterRaises(t) == [raised |-> TRUE, df |-> t]

\* One pass of the loop of filter_by_column_values over (column, filter_value).
ApplyFilter(t, column, filter_value) ==
    IF column \notin Labels(t) THEN Filtered(t)
    ELSE
    LET i == get_loc(t, column)
        col_dtype == t.columns[i].dtype
        cell(r) == t.rows[r].vals[i]
        rs == 1..Len(t.rows)
    IN  IF is_numeric_dtype(col_dtype) /\ filter_value.kind = "tuple"
        THEN Filtered(BooleanIndex(t,
                 [r \in rs |-> Between(cell(r), filter_value.lo, filter_value.hi)]))
        ELSE IF (is_categorical_dtype(col_dtype) \/ col_dtype = "object")
                /\ filter_value.kind = "list"
        THEN IF filter_value.vals # {}
             THEN Filtered(BooleanIndex(t, [r \in rs |-> cell(r) \in filter_value.vals]))
             ELSE Filtered(t)
        ELSE IF is_string_dtype(col_dtype) /\ filter_value.kind = "str"
        THEN IF filter_value.len > 0
             THEN IF ~StrAccessorOk(t, i) \/ ~filter_value.valid
                  THEN FilterRaises(t)
                  ELSE Filtered(BooleanIndex(t,
                           [r \in rs |-> Contains(cell(r), filter_value)]))
             ELSE Filtered(t)
        ELSE IF is_datetime64_any_dtype(col_dtype) /\ filter_value.kind = "tuple"
        THEN Filtered(BooleanIndex(t,
                 [r \in rs |-> Between(cell(r), filter_value.lo, filter_value.hi)]))
        ELSE Filtered(t)

\* for column, filter_value in filters.items(): ...
RECURSIVE ApplyFilters(_, _)
ApplyFilters(t, items) ==
    IF items = <<>> THEN Filtered(t)
    ELSE LET r == ApplyFilter(t, Head(items).column, Head(items).value)
         IN  IF r.raised THEN r ELSE ApplyFilters(r.df, Tail(items))

\* DataExplorer.filter_by_column_values: the new filtered_df, or the
\* exception that leaves it as it was.
filter_by_column_values(odf, fdf, items) ==
    IF odf = NoDF THEN Filtered(fdf)
    ELSE LET r == ApplyFilters(odf, items)
         IN  IF r.raised THEN FilterRaises(fdf) ELSE r

\* The permutations of 1..n
Permutations(n) ==
    {p \in [1..n -> 1..n] : \A i, j \in 1..n : p[i] = p[j] => i = j}

\* a sorts before or with b: missing entries last, the others by value
\* (ascending or descending).
Precedes(a, b, ascending) ==
    \/ b = NaN
    \/ a # NaN /\ (IF ascending THEN a.v <= b.v ELSE a.v >= b.v)

\* The entries of the column can be compared with one another.
Comparable(t, i) == \A a, b \in UniqueNonMissing(t, i) : a.k = b.k

\* DataFrame.sort_values(by=column, ascending=ascending): every order of the
\* rows that is sorted (the default quicksort fixes no order among ties).
sort_values(t, column, ascending) ==
    LET i == get_loc(t, column)
        n == Len(t.rows)
    IN  {[columns |-> t.columns, rows |-> [r \in 1..n |-> t.rows[p[r]]]] :
            p \in {q \in Permutations(n) :
                      \A r \in 1..(n - 1) :
                          Precedes(t.rows[q[r]].vals[i], t.rows[q[r + 1]].vals[i],
                                   ascending)}}

\* valid_columns = [col for col in columns if col in self.filtered_df.columns]
RECURSIVE valid_columns(_, _)
valid_columns(t, columns) ==
    IF columns = <<>> THEN <<>>
    ELSE (IF Head(columns) \in Labels(t) THEN <<Head(columns)>> ELSE <<>>)
         \o valid_columns(t, Tail(columns))

\* self.filtered_df[valid_columns]
Project(t, names) ==
    [columns |-> [k \in 1..Len(names) |-> t.columns[get_loc(t, names[k])]],
     rows    |-> [r \in 1..Len(t.rows) |->
                     [vals |-> [k \in 1..Len(names) |->
                                   t.rows[r].vals[get_loc(t, names[k])]],
                      n    |-> t.rows[r].n]]]

\* DataExplorer.select_columns
select_columns(fdf, columns) ==
    IF fdf = NoDF THEN fdf
    ELSE IF valid_columns(fdf, columns) # <<>>
         THEN Project(fdf, valid_columns(fdf, columns))
         ELSE fdf

\* The rows of the explored tables: a number, a text or another object, a
\* date; entries can be missing.
ExplorerDTypes == <<"float64", "object", "datetime64[ns]">>

ExplorerRows ==
    {<<Cell("num", 1), Cell("str", 2), Cell("date", 1)>>,
     <<Cell("num", 2), Cell("str", 98), Cell("date", 2)>>,
     <<NaN, Cell("obj", 1), Cell("date", 1)>>}

\* The dicts of filters: on the number, the text and the date column and on
\* a column the table does not have; ranges, lists (also empty, also for a
\* column that takes no list), search texts (also empty, also invalid).
FilterItems ==
    {Item("c1", Range(2, 2)), Item("c1", ValueList({Cell("num", 1)})),
     Item("c2", ValueList({Cell("str", 2)})), Item("c2", ValueList({})),
     Item("c2", SearchText(TRUE, 3)), Item("c2", SearchText(TRUE, 0)),
     Item("c2", SearchText(FALSE, 1)),
     Item("c3", Range(1, 1)), Item("zz", Range(0, 2))}

FilterDicts ==
    {<<>>}
    \cup {<<a>> : a \in FilterItems}
    \cup {d \in FilterItems \X FilterItems :
              d[1].column # d[2].column /\ d[2].column # "zz"}

InitExplorer ==
    /\ \E n \in 0..MaxRows :
           \E rs \in [1..n -> [vals : ExplorerRows, n : {1}]] :
               df = Table(ExplorerDTypes, rs)
    /\ original_df = NoDF
    /\ call = "init"
    /\ raised = FALSE
    /\ column_types = EmptyColumnTypes
    /\ compatible_charts = {}
    /\ suggestions = <<>>
    /\ chart_type = "None"
    /\ chart_params = <<>>
    /\ fig = NoFig
    /\ exception = NoException
    /\ Constructed

\* data_explorer.filter_by_column_values(filters)
FilterByColumnValues ==
    \E items \in FilterDicts :
        LET r == filter_by_column_values(original_df, filtered_df, items)
        IN  /\ filtered_df' = r.df
            /\ raised' = r.raised
            /\ filters' = items
            /\ call' = "filter_by_column_values"
            /\ UNCHANGED <<df, original_df, column_types, compatible_charts, suggestions>>
            /\ UNCHANGED <<chart_vars, session_vars, data_vars>>

\* data_explorer.sort_by_column(sort_col, ascending)
SortByColumn ==
    \E column \in {"c1", "c2", "zz"}, ascending \in BOOLEAN :
        /\ IF filtered_df = NoDF \/ column \notin Labels(filtered_df)
           THEN raised' = FALSE /\ UNCHANGED filtered_df
           ELSE IF ~Comparable(filtered_df, get_loc(filtered_df, column))
           THEN raised' = TRUE /\ UNCHANGED filtered_df
           ELSE /\ raised' = FALSE
                /\ filtered_df' \in sort_values(filtered_df, column, ascending)
        /\ call' = "sort_by_column"
        /\ filters' = <<>>
        /\ UNCHANGED <<df, original_df, column_types, compatible_charts, suggestions>>
        /\ UNCHANGED <<chart_vars, session_vars, data_vars>>

\* data_explorer.select_columns(selected_columns)
SelectColumns ==
    \E columns \in {<<>>, <<"c2">>, <<"c3", "c1">>, <<"zz", "c2", "c1">>, <<"zz">>} :
        /\ filtered_df' = select_columns(filtered_df, columns)
        /\ raised' = FALSE
        /\ call' = "select_columns"
        /\ filters' = <<>>
        /\ UNCHANGED <<df, original_df, column_types, compatible_charts, suggestions>>
        /\ UNCHANGED <<chart_vars, session_vars, data_vars>>

\* data_explorer.reset_filters()
ResetFilters ==
    /\ filtered_df' = IF original_df # NoDF THEN original_df ELSE filtered_df
    /\ raised' = FALSE
    /\ call' = "reset_filters"
    /\ filters' = <<>>
    /\ UNCHANGED <<df, original_df, column_types, compatible_charts, suggestions>>
    /\ UNCHANGED <<chart_vars, session_vars, data_vars>>

NextExplorer ==
    \/ SetData
    \/ FilterByColumnValues
    \/ SortByColumn
    \/ SelectColumns
    \/ ResetFilters

SpecExplorer == InitExplorer /\ [][NextExplorer]_vars

----------------------------------------------------------------------------
(* Vocabulary of the properties *)

InList(name, list) == \E k \in 1..Len(list) : list[k] = name

\* How many entries of the category map hold this column name.
Occurrences(name, types) ==
    Cardinality({p \in Categories \X (1..Len(ColumnNames)) :
                    p[2] <= Len(types[p[1]]) /\ types[p[1]][p[2]] = name})

\* A classification call was the last call; the table it classified.
Classified == call \in {"_classify_columns", "get_column_types"}

ClassifiedTable == IF call = "get_column_types" THEN original_df ELSE df

ColumnsOf(t) == 1..Len(t.columns)

NumericTyped(t, i) == t.columns[i].dtype \in {"int64", "float64", "bool"}

\* A column of str objects (with possibly missing entries).
StringColumn(t, i) ==
    /\ t.columns[i].dtype = "object"
    /\ \A c \in UniqueNonMissing(t, i) : c.k = "str"

UnrecognizedType(t, i) ==
    t.columns[i].dtype \notin
        {"int64", "float64", "bool", "datetime64[ns]", "object", "string", "category"}

\* distinct-value count < min(20, 0.1 x row count)
BelowThreshold(t, i) ==
    /\ Cardinality(UniqueNonMissing(t, i)) < 20
    /\ 10 * Cardinality(UniqueNonMissing(t, i)) < NumRows(t)

MeanLenAbove50(t, i) ==
    StrLenCount(t, i) > 0 /\ StrLenSum(t, i) > 50 * StrLenCount(t, i)

MeanLenAtMost50(t, i) ==
    StrLenCount(t, i) > 0 /\ StrLenSum(t, i) <= 50 * StrLenCount(t, i)

\* The category map has exactly one numeric and one categorical column and
\* nothing else.
OneNumericOneCategorical(types) ==
    /\ Len(types["numeric"]) = 1
    /\ Len(types["categorical"]) = 1
    /\ \A cat \in Categories \ {"numeric", "categorical"} : Len(types[cat]) = 0

----------------------------------------------------------------------------
(* Properties *)

\* C1: for every table, a classification call (_classify_columns or
\* get_column_types) returns a category map in which each column name of the
\* table is listed exactly once over the six category lists.
C1_ExactlyOneCategory ==
    Classified =>
        /\ ~raised
        /\ \A i \in ColumnsOf(ClassifiedTable) :
              Occurrences(ClassifiedTable.columns[i].name, column_types) = 1

\* C2: a numeric-typed column whose distinct non-missing values are exactly
\* {0, 1} is listed under boolean and not under numeric.
C2_ZeroOneIsBoolean ==
    (Classified /\ ~raised) =>
        \A i \in ColumnsOf(ClassifiedTable) :
            (/\ NumericTyped(ClassifiedTable, i)
             /\ UniqueNonMissing(ClassifiedTable, i) = {Cell("num", 0), Cell("num", 1)})
            => /\ InList(ClassifiedTable.columns[i].name, column_types["boolean"])
               /\ ~InList(ClassifiedTable.columns[i].name, column_types["numeric"])

C2_Witness ==
    /\ call = "_classify_columns" /\ ~raised
    /\ Len(df.columns) = 1
    /\ UniqueNonMissing(df, 1) = {Cell("num", 0), Cell("num", 1)}
    /\ column_types["boolean"] = <<df.columns[1].name>>

\* C3: a numeric-typed column with a non-missing value outside
\* {0, 1, True, False} is listed under numeric.
C3_OtherNumbersAreNumeric ==
    (Classified /\ ~raised) =>
        \A i \in ColumnsOf(ClassifiedTable) :
            (/\ NumericTyped(ClassifiedTable, i)
             /\ \E c \in UniqueNonMissing(ClassifiedTable, i) :
                    ~(c.k \in {"num", "bool"} /\ c.v \in {0, 1}))
            => InList(ClassifiedTable.columns[i].name, column_types["numeric"])

C3_Witness ==
    /\ call = "_classify_columns" /\ ~raised
    /\ Len(df.columns) = 1
    /\ UniqueNonMissing(df, 1) = {Cell("num", 0), Cell("num", 1), Cell("num", 2)}
    /\ column_types["numeric"] = <<df.columns[1].name>>

\* C4: a string column whose distinct-value count is >= min(20, 0.1 x rows)
\* and whose mean string length is <= 50 is listed under categorical.
C4_ShortStringsCategorical ==
    (Classified /\ ~raised) =>
        \A i \in ColumnsOf(ClassifiedTable) :
            (/\ StringColumn(ClassifiedTable, i)
             /\ ~BelowThreshold(ClassifiedTable, i)
             /\ MeanLenAtMost50(ClassifiedTable, i))
            => InList(ClassifiedTable.columns[i].name, column_types["categorical"])

\* the boundary: one string of length 2 and one of length 98, mean 50
C4_Witness ==
    /\ call = "_classify_columns" /\ ~raised
    /\ Len(df.columns) = 1
    /\ UniqueNonMissing(df, 1) = {Cell("str", 2), Cell("str", 98)}
    /\ ~BelowThreshold(df, 1)
    /\ StrLenSum(df, 1) = 50 * StrLenCount(df, 1)
    /\ column_types["categorical"] = <<df.columns[1].name>>

\* C5 as stated: a string column whose mean string length is > 50 is listed
\* under text whatever its cardinality.
C5_LongStringsAlwaysText ==
    (Classified /\ ~raised) =>
        \A i \in ColumnsOf(ClassifiedTable) :
            (StringColumn(ClassifiedTable, i) /\ MeanLenAbove50(ClassifiedTable, i))
            => InList(ClassifiedTable.columns[i].name, column_types["text"])

\* C5 amended: a string column whose mean string length is > 50 is listed
\* under text when its distinct-value count is >= min(20, 0.1 x rows), and
\* under categorical when the count is below that threshold.
C5_LongStringsTextUnlessLowCardinality ==
    (Classified /\ ~raised) =>
        \A i \in ColumnsOf(ClassifiedTable) :
            (StringColumn(ClassifiedTable, i) /\ MeanLenAbove50(ClassifiedTable, i))
            => IF BelowThreshold(ClassifiedTable, i)
               THEN InList(ClassifiedTable.columns[i].name, column_types["categorical"])
               ELSE InList(ClassifiedTable.columns[i].name, column_types["text"])

C5_Witness ==
    /\ Classified /\ ~raised
    /\ Len(ClassifiedTable.columns) = 1
    /\ StringColumn(ClassifiedTable, 1)
    /\ MeanLenAbove50(ClassifiedTable, 1)
    /\ NaN \in {ClassifiedTable.rows[r].vals[1] : r \in 1..Len(ClassifiedTable.rows)}
    /\ column_types["text"] = <<ClassifiedTable.columns[1].name>>

\* C6: classification never raises, and a column whose value type is none of
\* numeric, date/time or textual/object is listed under other whatever its
\* cardinality.
C6_NeverRaisesAndOtherFallback ==
    Classified =>
        /\ ~raised
        /\ \A i \in ColumnsOf(ClassifiedTable) :
              UnrecognizedType(ClassifiedTable, i)
              => InList(ClassifiedTable.columns[i].name, column_types["other"])

C8_LineNeedsNumeric ==
    (call = "get_compatible_charts" /\ ~raised /\ df # NoDF /\ ~IsEmpty(df)) =>
        ("line" \in compatible_charts
            <=> /\ Len(column_types["numeric"]) >= 1
                /\ \/ Len(column_types["datetime"]) >= 1
                   \/ Len(column_types["numeric"]) >= 1
                   \/ Len(column_types["categorical"]) >= 1)

\* a datetime and a categorical column, nothing numeric: line is not offered
C8_Witness ==
    /\ call = "get_compatible_charts" /\ ~raised
    /\ Len(column_types["numeric"]) = 0
    /\ Len(column_types["datetime"]) >= 1
    /\ Len(column_types["categorical"]) >= 1
    /\ "line" \notin compatible_charts

\* C9: scatter is compatible exactly when the category map has at least two
\* numeric columns.
C9_ScatterNeedsTwoNumeric ==
    (call = "get_compatible_charts" /\ ~raised /\ df # NoDF /\ ~IsEmpty(df)) =>
        ("scatter" \in compatible_charts <=> Len(column_types["numeric"]) >= 2)

C9_Witness ==
    /\ call = "get_compatible_charts" /\ ~raised
    /\ Len(column_types["numeric"]) = 2
    /\ "scatter" \in compatible_charts

\* C10 as stated: on a table of exactly one numeric and one categorical column
\* get_compatible_charts returns exactly {bar}.
C10_OnlyBar ==
    (call = "get_compatible_charts" /\ ~raised /\ OneNumericOneCategorical(column_types))
        => compatible_charts = {"bar"}

\* C10 amended: on a table of exactly one numeric and one categorical column
\* get_compatible_charts returns exactly {bar, line}; scatter is not offered.
C10_BarAndLine ==
    (call = "get_compatible_charts" /\ ~raised /\ OneNumericOneCategorical(column_types))
        => compatible_charts = {"bar", "line"}

C10_Witness ==
    /\ call = "get_compatible_charts" /\ ~raised
    /\ OneNumericOneCategorical(column_types)
    /\ Len(df.columns) = 2
    /\ compatible_charts = {"bar", "line"}

\* A column of one of the given categories of the category map.
ColumnIn(types, cats, name) == \E cat \in cats : InList(name, types[cat])

\* Two distinct columns of the category map can fill the required parameters
\* x and y of the chart kind.
TwoColumnsFill(kind, types) ==
    LET names == {ColumnNames[k] : k \in 1..Len(ColumnNames)}
        ycats == {"numeric"}
        xcats == CASE kind = "bar"     -> {"categorical"}
                   [] kind = "line"    -> {"datetime", "numeric", "categorical"}
                   [] kind = "scatter" -> {"numeric"}
    IN  \E xn \in names, yn \in names :
            xn # yn /\ ColumnIn(types, xcats, xn) /\ ColumnIn(types, ycats, yn)

\* C11: every chart kind that get_compatible_charts reports has two distinct
\* columns of the table to fill its required parameters x and y.
C11_CompatibleHasTwoColumns ==
    (call = "get_compatible_charts" /\ ~raised) =>
        \A kind \in compatible_charts : TwoColumnsFill(kind, column_types)

----------------------------------------------------------------------------
(* Properties of get_chart_suggestions *)

\* The category map of the table (of no column when there is no table).
CategoryMap == IF df = NoDF THEN EmptyColumnTypes ELSE classify_columns(df).value

\* get_chart_suggestions was the last call and returned a list.
Suggested == call = "get_chart_suggestions" /\ ~raised

\* The rule a suggestion comes from: 1 plain bar, 2 bar with color, 3 line,
\* 4 plain scatter, 5 scatter with color.
RuleOf(s) ==
    IF s.type = "bar" THEN (IF "color" \in DOMAIN s.params THEN 2 ELSE 1)
    ELSE IF s.type = "line" THEN 3
    ELSE IF "color" \in DOMAIN s.params THEN 5 ELSE 4

\* The positions of the returned list that hold a suggestion of the rule.
AtRule(r) == {i \in 1..Len(suggestions) : RuleOf(suggestions[i]) = r}

\* A table of exactly one categorical, one numeric and one datetime column.
RegionRevenueDate(types) ==
    /\ Len(types["categorical"]) = 1
    /\ Len(types["numeric"]) = 1
    /\ Len(types["datetime"]) = 1
    /\ \A cat \in Categories \ {"categorical", "numeric", "datetime"} :
           Len(types[cat]) = 0

\* C12: the suggestions come in the order plain bar, bar with color, line,
\* scatter, scatter with color, each at most once; for a table of one
\* categorical, one numeric and one datetime column the list is exactly the
\* bar (x = categorical, y = numeric) followed by the line (x = datetime,
\* y = numeric).
C12_FixedOrder ==
    Suggested =>
        /\ \A i, j \in 1..Len(suggestions) :
               i < j => RuleOf(suggestions[i]) < RuleOf(suggestions[j])
        /\ RegionRevenueDate(CategoryMap) =>
               /\ Len(suggestions) = 2
               /\ suggestions[1].type = "bar"
               /\ suggestions[1].params = [x |-> CategoryMap["categorical"][1],
                                          y |-> CategoryMap["numeric"][1]]
               /\ suggestions[2].type = "line"
               /\ suggestions[2].params = [x |-> CategoryMap["datetime"][1],
                                          y |-> CategoryMap["numeric"][1]]

C12_Witness ==
    /\ Suggested
    /\ RegionRevenueDate(column_types)
    /\ Len(suggestions) = 2

\* C13: a plain bar suggestion is produced exactly when the table has at least
\* one numeric and at least one categorical column; its parameters are x = the
\* first categorical column and y = the first numeric column and nothing else.
C13_PlainBar ==
    Suggested =>
        /\ (Len(CategoryMap["numeric"]) > 0 /\ Len(CategoryMap["categorical"]) > 0)
               <=> AtRule(1) # {}
        /\ \A i \in AtRule(1) :
               suggestions[i].params = [x |-> CategoryMap["categorical"][1],
                                        y |-> CategoryMap["numeric"][1]]

C13_Witness ==
    /\ Suggested
    /\ AtRule(1) # {}
    /\ Len(column_types["numeric"]) > 0

\* C14: a bar suggestion with color is produced exactly when the table has at
\* least one numeric and at least two categorical columns; its color is the
\* second categorical column and its aggregation is sum; without a numeric
\* column there is no bar suggestion at all.
C14_ColorBar ==
    Suggested =>
        /\ (Len(CategoryMap["numeric"]) > 0 /\ Len(CategoryMap["categorical"]) >= 2)
               <=> AtRule(2) # {}
        /\ \A i \in AtRule(2) :
               /\ suggestions[i].params["color"] = CategoryMap["categorical"][2]
               /\ "aggregation" \in DOMAIN suggestions[i].params
               /\ suggestions[i].params["aggregation"] = "sum"
        /\ Len(CategoryMap["numeric"]) = 0 => AtRule(1) \cup AtRule(2) = {}

C14_Witness ==
    /\ Suggested
    /\ Len(column_types["categorical"]) >= 2
    /\ AtRule(2) # {}

\* C15: a line suggestion is produced exactly when the table has at least one
\* datetime and at least one numeric column, with x = the first datetime
\* column and y = the first numeric column.
C15_Line ==
    Suggested =>
        /\ (Len(CategoryMap["datetime"]) > 0 /\ Len(CategoryMap["numeric"]) > 0)
               <=> AtRule(3) # {}
        /\ \A i \in AtRule(3) :
               /\ suggestions[i].params["x"] = CategoryMap["datetime"][1]
               /\ suggestions[i].params["y"] = CategoryMap["numeric"][1]

C15_Witness ==
    /\ Suggested
    /\ Len(column_types["datetime"]) > 0
    /\ AtRule(3) # {}

\* C16: a plain scatter suggestion is produced exactly when the table has at
\* least two numeric columns, with x = the first and y = the second numeric
\* column.
C16_PlainScatter ==
    Suggested =>
        /\ Len(CategoryMap["numeric"]) >= ScatterMinNumeric <=> AtRule(4) # {}
        /\ \A i \in AtRule(4) :
               suggestions[i].params = [x |-> CategoryMap["numeric"][1],
                                        y |-> CategoryMap["numeric"][2]]

C16_Witness ==
    /\ Suggested
    /\ Len(column_types["numeric"]) >= ScatterMinNumeric
    /\ AtRule(4) # {}

\* C17: a scatter suggestion with color is produced exactly when the table has
\* at least two numeric and at least one categorical column; its color is the
\* first categorical column and it directly follows the plain scatter.
C17_ColorScatter ==
    Suggested =>
        /\ (Len(CategoryMap["numeric"]) >= ScatterMinNumeric
                /\ Len(CategoryMap["categorical"]) > 0)
               <=> AtRule(5) # {}
        /\ \A i \in AtRule(5) :
               /\ suggestions[i].params["color"] = CategoryMap["categorical"][1]
               /\ i - 1 \in AtRule(4)

C17_Witness ==
    /\ Suggested
    /\ Len(column_types["categorical"]) > 0
    /\ AtRule(5) # {}

\* No suggestion rule applies to a table of this category map.
NoRuleApplies(types) ==
    /\ ~(Len(types["numeric"]) > 0 /\ Len(types["categorical"]) > 0)
    /\ ~(Len(types["datetime"]) > 0 /\ Len(types["numeric"]) > 0)
    /\ ~(Len(types["numeric"]) >= ScatterMinNumeric)

\* C18: get_chart_suggestions never raises, and it returns the empty list
\* when there is no table, when the table has no column or no row, and when
\* no suggestion rule applies to the table.
C18_SuggestionsNeverFail ==
    call = "get_chart_suggestions" =>
        /\ ~raised
        /\ (df = NoDF \/ IsEmpty(df) \/ NoRuleApplies(CategoryMap))
               => suggestions = <<>>

----------------------------------------------------------------------------
(* Order of the category lists *)

\* A call that returned a category map, and the table the map is of.
Mapped ==
    /\ call \in {"_classify_columns", "get_compatible_charts",
                 "get_chart_suggestions", "get_column_types"}
    /\ ~raised

MappedTable == IF call = "get_column_types" THEN original_df ELSE df

\* The position in the table of the column of this name.
ColumnIndex(t, name) == CHOOSE i \in ColumnsOf(t) : t.columns[i].name = name

\* The positions of the columns the classification rules put in the category.
ColumnsOfCategory(t, cat) == {i \in ColumnsOf(t) : ClassifyColumn(t, i) = cat}

\* The k-th leftmost of a set of positions.
RECURSIVE KthLeftmost(_, _)
KthLeftmost(S, k) ==
    LET m == CHOOSE i \in S : \A j \in S : i <= j
    IN  IF k = 1 THEN m ELSE KthLeftmost(S \ {m}, k - 1)

\* C19: every list of a returned category map holds its columns in the
\* table's left-to-right order, its k-th entry being the k-th leftmost column
\* of the category; so the x, y and color columns of the bar suggestions are
\* the leftmost categorical, leftmost numeric and second-leftmost categorical
\* columns of the table.
C19_ListsInColumnOrder ==
    Mapped =>
        /\ \A cat \in Categories :
               /\ \A a, b \in 1..Len(column_types[cat]) :
                      a < b => ColumnIndex(MappedTable, column_types[cat][a])
                                   < ColumnIndex(MappedTable, column_types[cat][b])
               /\ \A k \in 1..Len(column_types[cat]) :
                      /\ Cardinality(ColumnsOfCategory(MappedTable, cat)) >= k
                      /\ ColumnIndex(MappedTable, column_types[cat][k])
                             = KthLeftmost(ColumnsOfCategory(MappedTable, cat), k)
        /\ call = "get_chart_suggestions" =>
               /\ \A i \in AtRule(1) \cup AtRule(2) :
                      /\ ColumnIndex(df, suggestions[i].params["x"])
                             = KthLeftmost(ColumnsOfCategory(df, "categorical"), 1)
                      /\ ColumnIndex(df, suggestions[i].params["y"])
                             = KthLeftmost(ColumnsOfCategory(df, "numeric"), 1)
               /\ \A i \in AtRule(2) :
                      ColumnIndex(df, suggestions[i].params["color"])
                          = KthLeftmost(ColumnsOfCategory(df, "categorical"), 2)

\* Two categorical columns with a numeric column between them.
C19_Witness ==
    /\ Suggested
    /\ column_types["categorical"] = <<"c1", "c3">>
    /\ column_types["numeric"] = <<"c2">>
    /\ AtRule(2) # {}

----------------------------------------------------------------------------
(* Properties of chart creation *)

\* A chart object's create_chart was the last call.
ChartCalled == call = "chart.create_chart"

\* C20: for each chart kind, create_chart called without the parameter x or
\* without the parameter y raises the ValueError of its parameter check and
\* returns no figure.
C20_MissingRequiredFails ==
    (ChartCalled /\ ("x" \notin DOMAIN chart_params \/ "y" \notin DOMAIN chart_params))
        => /\ exception = Exception("ValueError", "create_chart")
           /\ fig = NoFig

\* A bar chart asked for with x but without y.
C20_Witness ==
    /\ ChartCalled
    /\ chart_type = "bar"
    /\ "x" \in DOMAIN chart_params
    /\ "y" \notin DOMAIN chart_params
    /\ exception.type = "ValueError"

\* The required parameters are given and one of them is no column of the table.
NamesMissingColumn ==
    /\ RequiredGiven(chart_params)
    /\ (chart_params["x"] \notin Labels(df) \/ chart_params["y"] \notin Labels(df))

\* C21: for each chart kind, create_chart with x or y naming a column that is
\* not in the table raises the error of the parameter validation (ValueError)
\* and returns no figure.
C21_MissingColumnIsInvalidParameters ==
    (ChartCalled /\ NamesMissingColumn)
        => /\ exception.type = "ValueError"
           /\ fig = NoFig

\* The reductions the specification recognizes.
RecognizedReductions == {"sum", "mean", "count", "min", "max"}

\* A bar or line chart asked for with two different columns of the table, no
\* color, and an aggregation name outside the recognized reductions.
UnrecognizedAggregation ==
    /\ chart_type \in {"bar", "line"}
    /\ RequiredGiven(chart_params)
    /\ chart_params["x"] \in Labels(df)
    /\ chart_params["y"] \in Labels(df)
    /\ chart_params["x"] # chart_params["y"]
    /\ "color" \notin DOMAIN chart_params
    /\ "aggregation" \in DOMAIN chart_params
    /\ chart_params["aggregation"] \notin RecognizedReductions

\* C22: bar or line chart creation with an aggregation name that is not one of
\* sum, mean, count, min, max raises an error of a kind other than the
\* parameter error (ValueError) and returns no figure.
C22_UnrecognizedAggregationFails ==
    (ChartCalled /\ UnrecognizedAggregation)
        => /\ exception.type \notin {"None", "ValueError"}
           /\ fig = NoFig

----------------------------------------------------------------------------
(* Properties of the visualizer's session *)

\* create_chart or update_chart of the DataVisualizer was the last call.
VisualizerCalled == call \in {"create_chart", "update_chart"}

\* C23: no exception leaves DataVisualizer.create_chart (called directly or
\* by update_chart); an error of the chart creation is reported with st.error
\* and None is returned.
C23_CreateChartNeverPropagates ==
    VisualizerCalled =>
        /\ exception = NoException
        /\ st_error => fig = NoFig

\* The calls that only read the table.
ReadOnlyCalls == {"_classify_columns", "get_compatible_charts", "get_chart_suggestions"}

\* C24: a step of _classify_columns, get_compatible_charts or
\* get_chart_suggestions leaves the table, chart_config and current_chart as
\* they were.
C24_ReadOnly ==
    [][call' \in ReadOnlyCalls =>
          /\ df' = df
          /\ chart_config' = chart_config
          /\ current_chart' = current_chart]_vars

\* Suggestions computed while the session holds a chart and its configuration.
C24_Witness ==
    /\ call = "get_chart_suggestions"
    /\ suggestions # <<>>
    /\ current_chart # NoFig
    /\ DOMAIN chart_config # {}

\* C28: whenever the session holds a current chart, it is the figure that the
\* stored chart_config (its type and params) builds from the table.
C28_ChartMatchesConfig ==
    current_chart # NoFig =>
        /\ DOMAIN chart_config # {}
        /\ current_chart
               = chart_create_chart(chart_config.type, df, chart_config.params).fig

----------------------------------------------------------------------------
(* Properties of the classification of degenerate tables *)

\* C25: a classification that returns puts every column of numeric dtype
\* whose values are all missing in the boolean list, not in numeric and not
\* in other.
C25_AllMissingNumericIsBoolean ==
    (Classified /\ ~raised) =>
        \A i \in ColumnsOf(ClassifiedTable) :
            (/\ NumericTyped(ClassifiedTable, i)
             /\ NumRows(ClassifiedTable) > 0
             /\ UniqueNonMissing(ClassifiedTable, i) = {})
                => /\ InList(ClassifiedTable.columns[i].name, column_types["boolean"])
                   /\ ~InList(ClassifiedTable.columns[i].name, column_types["numeric"])
                   /\ ~InList(ClassifiedTable.columns[i].name, column_types["other"])

\* A float64 column of missing values only, classified.
C25_Witness ==
    /\ Classified
    /\ ~raised
    /\ NumRows(ClassifiedTable) > 0
    /\ Len(ClassifiedTable.columns) = 1
    /\ NumericTyped(ClassifiedTable, 1)
    /\ UniqueNonMissing(ClassifiedTable, 1) = {}
    /\ column_types["boolean"] = <<"c1">>

\* The category the rules other than the cardinality rule give a column
\* without rows.
RowlessCategory(dtype) ==
    IF is_numeric_dtype(dtype) THEN "boolean"
    ELSE IF is_datetime64_any_dtype(dtype) THEN "datetime"
    ELSE IF is_categorical_dtype(dtype) THEN "categorical"
    ELSE IF is_string_dtype(dtype) THEN "categorical"
    ELSE "other"

\* C26: the classification of a table without rows does not raise, no column
\* passes the cardinality test (0 < min(20, 0) is false), and every column
\* gets the category of the dtype rules, a column none of them matches going
\* to other.
C26_ZeroRows ==
    (Classified /\ NumRows(ClassifiedTable) = 0) =>
        /\ ~raised
        /\ \A i \in ColumnsOf(ClassifiedTable) :
               /\ ~LowCardinality(ClassifiedTable, i)
               /\ InList(ClassifiedTable.columns[i].name,
                         column_types[RowlessCategory(ClassifiedTable.columns[i].dtype)])

\* A table without rows whose columns went to other and elsewhere.
C26_Witness ==
    /\ Classified
    /\ NumRows(ClassifiedTable) = 0
    /\ Len(ClassifiedTable.columns) >= 2
    /\ Len(column_types["other"]) >= 1
    /\ Len(column_types["categorical"]) >= 1

----------------------------------------------------------------------------
(* The two classifiers *)

\* C30: get_column_types of the explorer, after set_data with a table, ends
\* as _classify_columns of the visualizer does on that table: it raises when
\* that raises and returns the same category map otherwise.
C30_ClassifiersAgree ==
    call = "get_column_types" =>
        /\ raised = classify_columns(original_df).raised
        /\ column_types = classify_columns(original_df).value

\* A long-string column of few distinct values, classified by the explorer.
C30_Witness ==
    /\ call = "get_column_types"
    /\ ~raised
    /\ Len(original_df.columns) = 1
    /\ original_df.columns[1].dtype = "object"
    /\ LowCardinality(original_df, 1)
    /\ column_types["categorical"] = <<"c1">>

----------------------------------------------------------------------------
(* Properties of the data manager *)

\* No file is selected exactly when no table is; the selected file is a key
\* of loaded_data and the selected table is the one stored under it.
SelectionConsistent ==
    /\ current_file = NoFile <=> current_df = NoDF
    /\ current_file # NoFile =>
           /\ current_file \in DOMAIN loaded_data
           /\ loaded_data[current_file] = current_df

\* A load_file or select_file step that returns False changes nothing.
FailureChangesNothing ==
    (call' \in {"load_file", "select_file"} /\ ~success')
        => UNCHANGED <<loaded_data, current_df, current_file>>

\* C27: after any sequence of load_file and select_file calls the selection
\* is consistent with loaded_data, and a call that fails leaves loaded_data,
\* current_df and current_file unchanged.
C27_SelectionInvariant ==
    /\ []SelectionConsistent
    /\ [][FailureChangesNothing]_vars

\* A failed call while a sheet of a loaded workbook is selected.
C27_Witness ==
    /\ call \in {"load_file", "select_file"}
    /\ ~success
    /\ current_file # NoFile
    /\ Len(current_file) > 1
    /\ Cardinality(DOMAIN loaded_data) >= 2

----------------------------------------------------------------------------
(* Properties of the data explorer *)

\* The row passes the filter item: an item on a column the table does not
\* have, an empty list or text, and a value of a shape the column's dtype
\* takes no filter of, exclude no row.
RowSatisfies(t, vals, item) ==
    \/ item.column \notin Labels(t)
    \/ LET i == get_loc(t, item.column)
           dtype == t.columns[i].dtype
       IN  CASE item.value.kind = "tuple" ->
                    (is_numeric_dtype(dtype) \/ is_datetime64_any_dtype(dtype))
                        => Between(vals[i], item.value.lo, item.value.hi)
             [] item.value.kind = "list" ->
                    ((is_categorical_dtype(dtype) \/ dtype = "object")
                     /\ item.value.vals # {})
                        => vals[i] \in item.value.vals
             [] item.value.kind = "str" ->
                    (is_string_dtype(dtype) /\ item.value.len > 0)
                        => item.value.valid /\ Contains(vals[i], item.value)

\* The rows of the original table that pass every item, in their order.
OriginalRowsSatisfying(items) ==
    BooleanIndex(original_df,
                 [r \in 1..Len(original_df.rows) |->
                     \A k \in 1..Len(items) :
                         RowSatisfies(original_df, original_df.rows[r].vals, items[k])])

FilterStartsFromOriginal ==
    (call = "filter_by_column_values" /\ original_df # NoDF)
        => filtered_df = OriginalRowsSatisfying(filters)

FilterKeepsOriginal ==
    call' = "filter_by_column_values" => original_df' = original_df

\* C29: after filter_by_column_values, filtered_df is exactly the rows of
\* original_df that satisfy all the filters of that call, whatever earlier
\* filter, sort or column selection was made, and original_df is unchanged.
C29_FilterStartsFromOriginal ==
    /\ []FilterStartsFromOriginal
    /\ [][FilterKeepsOriginal]_vars

====
